---- MODULE Spec2Model ----
(***************************************************************************)
(* Wave engines of the phonetic visualizer.                                *)
(*                                                                         *)
(*   PolarWaveEngine  client/src/lib/polarWaveEngine.ts                    *)
(*   WaveEngine       client/src/lib/waveEngine.ts                         *)
(*                                                                         *)
(* and the two pure functions next to them, each under a specification of  *)
(* its own that applies it to a bounded set of inputs:                     *)
(*                                                                         *)
(*   SynthSpec  PolarWaveEngine.generateSpectrogramFrame, run through the  *)
(*              loop of generateWave for each phonetic type                *)
(*   CoordSpec  CoordinateTransform (client/src/lib/coordinateTransform.ts)*)
(*              on the grid of generateTestGrid and on display coordinates *)
(*              in and out of the wedge                                    *)
(*                                                                         *)
(* RenderSpec runs the polar engine under the fixed step of the render     *)
(* loop, updateTime(0.1) per tick.                                         *)
(*                                                                         *)
(* A page constructs exactly one of the two engines; `engine` records      *)
(* which.  The fields of PolarWaveEngine are waves, time, waveId; the      *)
(* fields of WaveEngine (same names in the source) are swaves, stime,      *)
(* swaveId.                                                                *)
(*                                                                         *)
(* Clocks are counted in half frames: the polar engine plays FrameRate     *)
(* frames per unit of simulation time and one clock unit of the model is   *)
(* 1 / TimeScale of that unit (0.05, the step the simple engine's render   *)
(* loop uses), so Math.floor(age * 10) is a real floor in the model.       *)
(* Real-valued parameters are fixed point numbers with FP units per 1.     *)
(***************************************************************************)
EXTENDS Integers, Sequences, FiniteSets, TLC

VARIABLES
    engine,             \* which engine was constructed: "polar" | "simple"
    waves,              \* PolarWaveEngine.waves
    time,               \* PolarWaveEngine.time
    waveId,             \* PolarWaveEngine.waveId
    swaves,             \* WaveEngine.waves
    stime,              \* WaveEngine.time
    swaveId,            \* WaveEngine.waveId
    lastOp,             \* the operation that completed last
    activeSpectrograms, \* array returned by the last PolarWaveEngine.updateTime
    retired,            \* waves the last updateTime marked inactive (history)
    count,              \* number returned by the last getActiveWaveCount
    height,             \* number returned by the last calculateHeightAtPosition
    sampled,            \* arguments of the last calculateHeightAtPosition
    issued,             \* every id handed out since construction (history)
    synType,            \* generateWave loop: type of the wave being built
    synIndex,           \* generateWave loop: the loop variable t
    synEnvelope,        \* envelope of the last frame before trill modulation
    rawBins,            \* frequencyBins of the last frame before normalization
    divided,            \* whether the last frame was divided by its maximum
    frame,              \* the frame generateSpectrogramFrame returned last
    prevFrame,          \* the frame it returned before that one
    bilateral,          \* array returned by the last createBilateralSpectrogram
    logical,            \* the logical coordinate under test
    display,            \* logicalToDisplay(logical), once computed
    mirrored,           \* logicalToDisplay of the mirror image of logical
    argument,           \* argument of the last displayToLogical
    restored,           \* result of the last displayToLogical
    gridArgs,           \* arguments of the last generateTestGrid
    points              \* array returned by the last generateTestGrid

vars == <<engine, waves, time, waveId, swaves, stime, swaveId,
          lastOp, activeSpectrograms, retired, count, height, sampled,
          issued, synType, synIndex, synEnvelope, rawBins, divided, frame,
          prevFrame, bilateral,
          logical, display, mirrored, argument, restored, gridArgs, points>>

\* everything the engines own or return, but for lastOp
engineVars == <<engine, waves, time, waveId, swaves, stime, swaveId,
                activeSpectrograms, retired, count, height, sampled, issued>>

\* the frame synthesizer under test
synthVars == <<synType, synIndex, synEnvelope, rawBins, divided, frame,
               prevFrame, bilateral>>

\* state of the pure functions under test, which no engine operation
\* touches
\* the coordinate transform under test
gridVars  == <<gridArgs, points>>
coordVars == <<logical, display, mirrored, argument, restored, gridVars>>

pureVars == <<synthVars, coordVars>>

polarVars  == <<waves, time, waveId>>
simpleVars == <<swaves, stime, swaveId>>

----------------------------------------------------------------------------
(* Bounds of the model *)

MaxWaves == 2      \* waves an engine holds at once
MaxId    == 3      \* waves generated between two resets
MaxTime  == 1600   \* polar clock (half frames) after which updateTime stops
SMaxTime == 475    \* simple clock (0.05 steps) after which updateTime stops
MaxSeed  == 2      \* noise patterns tried per fricative frame: 0..MaxSeed
MaxSteps == 4      \* small grids tried by generateTestGrid: 2..MaxSteps
MaxRenderWaves == 1    \* waves held at once under the render loop
MaxBirthTick   == 2    \* last tick of the render loop before which a wave
                       \* is created

----------------------------------------------------------------------------
(* Units *)

FrameRate == 10                 \* "10 frames per second", updateTime
TimeScale == 2 * FrameRate      \* clock units per unit of simulation time
FP        == 100 * 100          \* fixed point units per 1.0

PhoneticType == {"vowel", "trill", "fricative", "plosive"}

----------------------------------------------------------------------------
(* PolarWaveEngine: profile table *)

phoneticProfiles ==
    [ vowel     |-> [ duration |-> 800, peakFrequencies |-> <<300, 1200, 2500>>,
                      bandwidth |-> 200, amplitude |-> (8 * FP) \div 10,
                      attackTime |-> 50, sustainLevel |-> (9 * FP) \div 10,
                      decayTime |-> 200, modulationRate |-> 0 ],
      trill     |-> [ duration |-> 600, peakFrequencies |-> <<1000, 2000>>,
                      bandwidth |-> 300, amplitude |-> (6 * FP) \div 10,
                      attackTime |-> 20, sustainLevel |-> (7 * FP) \div 10,
                      decayTime |-> 100, modulationRate |-> 25 ],
      fricative |-> [ duration |-> 400, peakFrequencies |-> <<3000, 5000, 7000>>,
                      bandwidth |-> 1000, amplitude |-> (4 * FP) \div 10,
                      attackTime |-> 30, sustainLevel |-> (8 * FP) \div 10,
                      decayTime |-> 150, modulationRate |-> 0 ],
      plosive   |-> [ duration |-> 200, peakFrequencies |-> <<500, 1500, 4000>>,
                      bandwidth |-> 800, amplitude |-> FP,
                      attackTime |-> 5, sustainLevel |-> (3 * FP) \div 10,
                      decayTime |-> 50, modulationRate |-> 0 ] ]

Profile(phoneticType) == phoneticProfiles[phoneticType]

----------------------------------------------------------------------------
(* PolarWaveEngine.generateWave *)

\* variant: the counter left out of the template
WaveIdString_Constant(n) == <<"wave-", 0>>

\* `wave-${this.waveId++}`: the template is injective in the counter
WaveIdString(n) == <<"wave-", n>>

\* Math.floor(profile.duration); every duration of the table is integral
MaxTimeIndex(profile) == profile.duration

\* The value generateSpectrogramFrame returns.  The 100 bins are a function
\* of the phonetic type and the time index; the frame carries that pair in
\* their place.
SpectrogramFrame(phoneticType, timeIndex) ==
    [ timeIndex |-> timeIndex, frequencyBins |-> <<phoneticType, timeIndex>> ]

\* variant: the loop bound taken inclusively (t <= wave.maxTimeIndex)
SpectrogramSequence_Inclusive(phoneticType, maxTimeIndex) ==
    [ i \in 1..(maxTimeIndex + 1) |-> SpectrogramFrame(phoneticType, i - 1) ]

\* for (let t = 0; t < wave.maxTimeIndex; t++) wave.spectrograms.push(...)
\* (sequences are 1-based: spectrograms[t] of the source is element t + 1)
SpectrogramSequence(phoneticType, maxTimeIndex) ==
    [ i \in 1..maxTimeIndex |-> SpectrogramFrame(phoneticType, i - 1) ]

\* variant: the wave starts out pending instead of active
NewWave_Pending(phoneticType, now, n) ==
    [ id               |-> WaveIdString(n),
      birthTime        |-> now,
      type             |-> phoneticType,
      spectrograms     |-> SpectrogramSequence(phoneticType,
                                MaxTimeIndex(Profile(phoneticType))),
      currentTimeIndex |-> 0,
      maxTimeIndex     |-> MaxTimeIndex(Profile(phoneticType)),
      isActive         |-> FALSE ]

NewWave(phoneticType, now, n) ==
    [ id               |-> WaveIdString(n),
      birthTime        |-> now,
      type             |-> phoneticType,
      spectrograms     |-> SpectrogramSequence(phoneticType,
                                MaxTimeIndex(Profile(phoneticType))),
      currentTimeIndex |-> 0,
      maxTimeIndex     |-> MaxTimeIndex(Profile(phoneticType)),
      isActive         |-> TRUE ]

\* clock units a wave of this type lives: the least age whose index
\* reaches maxTimeIndex
Lifetime(phoneticType) ==
    (MaxTimeIndex(Profile(phoneticType)) * TimeScale) \div FrameRate

IsActive(wave) == wave.isActive

\* variant: the array is replaced instead of extended
Push_Replace(ws, wave) == << wave >>

\* this.waves.push(wave)
Push(ws, wave) == Append(ws, wave)

GenerateWave(phoneticType) ==
    /\ engine = "polar"
    /\ Len(waves) < MaxWaves
    /\ waveId < MaxId
    /\ time + Lifetime(phoneticType) <= MaxTime
    /\ waves' = Push(waves, NewWave(phoneticType, time, waveId))
    /\ waveId' = waveId + 1
    /\ time' = time
    /\ issued' = issued \cup {WaveIdString(waveId)}
    /\ lastOp' = "generateWave"
    /\ activeSpectrograms' = <<>>
    /\ retired' = <<>>
    /\ count' = 0
    /\ height' = 0
    /\ sampled' = << >>
    /\ UNCHANGED <<engine, pureVars, simpleVars>>

----------------------------------------------------------------------------
(* PolarWaveEngine.updateTime *)

\* step lengths tried, in clock units: 0, 19.95 and 20 units of time
DeltaTimes == {0, 399, 400}

\* variant: five frames per unit of time
NewTimeIndex_HalfRate(age) == (age * FrameRate) \div (2 * TimeScale)

\* Math.floor(age * 10)
NewTimeIndex(age) == (age * FrameRate) \div TimeScale

\* variant: the frame index compared against the duration in clock ticks
StillPlaying_Scaled(newTimeIndex, wave) ==
    newTimeIndex < wave.maxTimeIndex * FrameRate

\* variant: the bound taken inclusively
StillPlaying_Inclusive(newTimeIndex, wave) ==
    newTimeIndex <= wave.maxTimeIndex

\* if (newTimeIndex < wave.maxTimeIndex)
StillPlaying(newTimeIndex, wave) == newTimeIndex < wave.maxTimeIndex

\* variant: the index itself tested for truthiness, so index 0 fails
HasFrame_IndexTruthy(wave) ==
    /\ wave.currentTimeIndex > 0
    /\ wave.currentTimeIndex < Len(wave.spectrograms)

\* if (wave.spectrograms[wave.currentTimeIndex]): an element is truthy
\* exactly when the index is inside the array
HasFrame(wave) ==
    /\ wave.currentTimeIndex >= 0
    /\ wave.currentTimeIndex < Len(wave.spectrograms)

CurrentFrame(wave) == wave.spectrograms[wave.currentTimeIndex + 1]

\* body of the forEach callback: the wave as the callback leaves it
UpdateWave(wave, now) ==
    IF wave.isActive
    THEN IF StillPlaying(NewTimeIndex(now - wave.birthTime), wave)
         THEN [wave EXCEPT !.currentTimeIndex = NewTimeIndex(now - wave.birthTime)]
         ELSE [wave EXCEPT !.isActive = FALSE]
    ELSE wave

\* body of the forEach callback: what it pushes on activeSpectrograms
Pushed(wave, now) ==
    IF /\ wave.isActive
       /\ StillPlaying(NewTimeIndex(now - wave.birthTime), wave)
       /\ HasFrame(UpdateWave(wave, now))
    THEN << CurrentFrame(UpdateWave(wave, now)) >>
    ELSE << >>

RECURSIVE CollectSpectrograms(_, _)
CollectSpectrograms(ws, now) ==
    IF ws = << >> THEN << >>
    ELSE Pushed(Head(ws), now) \o CollectSpectrograms(Tail(ws), now)

\* variant: only the wave at the head of the array is advanced
UpdateAll_HeadOnly(ws, now) ==
    [ i \in 1..Len(ws) |-> IF i = 1 THEN UpdateWave(ws[i], now) ELSE ws[i] ]

\* this.waves.forEach(wave => ...): every wave by the same callback
UpdateAll(ws, now) == [ i \in 1..Len(ws) |-> UpdateWave(ws[i], now) ]

\* variant: the filter left out
CleanUp_Skipped(ws) == ws

\* this.waves = this.waves.filter(wave => wave.isActive)
CleanUp(ws) == SelectSeq(ws, IsActive)

NotActive(wave) == ~wave.isActive

\* what the history keeps of a wave: everything but its frames
Summary(wave) ==
    [ id |-> wave.id, birthTime |-> wave.birthTime, type |-> wave.type,
      maxTimeIndex |-> wave.maxTimeIndex ]

Summaries(ws) == [ i \in 1..Len(ws) |-> Summary(ws[i]) ]

\* variant: the step subtracted from the clock
TimeAfter_Rewound(now, deltaTime) == now - deltaTime

\* this.time += deltaTime
TimeAfter(now, deltaTime) == now + deltaTime

UpdateTime(deltaTime) ==
    /\ engine = "polar"
    /\ time < MaxTime
    /\ time' = TimeAfter(time, deltaTime)
    /\ waves' = CleanUp(UpdateAll(waves, time'))
    /\ activeSpectrograms' = CollectSpectrograms(waves, time')
    /\ retired' = Summaries(SelectSeq(UpdateAll(waves, time'), NotActive))
    /\ lastOp' = "updateTime"
    /\ count' = 0
    /\ height' = 0
    /\ sampled' = << >>
    /\ UNCHANGED <<engine, pureVars, waveId, issued, simpleVars>>

----------------------------------------------------------------------------
(* PolarWaveEngine.getActiveWaveCount and reset *)

ActiveWaveCount(ws) == Len(SelectSeq(ws, IsActive))

\* variant: the count taken destructively, the waves drained as they are
\* counted
GetActiveWaveCount_Draining ==
    /\ engine = "polar"
    /\ count' = ActiveWaveCount(waves)
    /\ waves' = << >>
    /\ height' = 0
    /\ sampled' = << >>
    /\ lastOp' = "getActiveWaveCount"
    /\ activeSpectrograms' = <<>>
    /\ retired' = <<>>
    /\ UNCHANGED <<engine, pureVars, time, waveId, issued, simpleVars>>

GetActiveWaveCount ==
    /\ engine = "polar"
    /\ count' = ActiveWaveCount(waves)
    /\ height' = 0
    /\ sampled' = << >>
    /\ lastOp' = "getActiveWaveCount"
    /\ activeSpectrograms' = <<>>
    /\ retired' = <<>>
    /\ UNCHANGED <<engine, pureVars, polarVars, issued, simpleVars>>

ResetWaves  == << >>
ResetTime   == 0

\* variant: the id counter survives the reset
ResetWaveId_Kept == waveId

ResetWaveId == 0

Reset ==
    /\ engine = "polar"
    /\ waves' = ResetWaves
    /\ time' = ResetTime
    /\ waveId' = ResetWaveId
    /\ lastOp' = "reset"
    /\ activeSpectrograms' = <<>>
    /\ retired' = <<>>
    /\ count' = 0
    /\ height' = 0
    /\ sampled' = << >>
    /\ UNCHANGED <<engine, pureVars, issued, simpleVars>>

----------------------------------------------------------------------------
(* WaveEngine: parameters *)

params ==
    [ arcSpan   |-> 10472,              \* Math.PI / 3
      maxRadius |-> 10,
      waveSpeed |-> (8 * FP) \div 100,  \* 0.08
      minFreq   |-> 100,
      maxFreq   |-> 6000 ]

phoneticParams ==
    [ vowel     |-> [ freq |-> 100,  amplitude |-> 8000,  decay |-> 500,
                      spread |-> 2000, centerFreq |-> 1000, duration |-> 9000,
                      frequencyBandwidth |-> 1000, attackTime |-> 1000,
                      sustainLevel |-> 9000, modulationRate |-> 0,
                      envelopeType |-> "sustained" ],
      trill     |-> [ freq |-> 150,  amplitude |-> 7000,  decay |-> 800,
                      spread |-> 4000, centerFreq |-> 3000, duration |-> 9000,
                      frequencyBandwidth |-> 3000, attackTime |-> 500,
                      sustainLevel |-> 8000, modulationRate |-> 8,
                      envelopeType |-> "modulated" ],
      fricative |-> [ freq |-> 3000, amplitude |-> 3000,  decay |-> 400,
                      spread |-> 9000, centerFreq |-> 6000, duration |-> 9500,
                      frequencyBandwidth |-> 8000, attackTime |-> 2000,
                      sustainLevel |-> 6000, modulationRate |-> 0,
                      envelopeType |-> "broadband" ],
      plosive   |-> [ freq |-> 1000, amplitude |-> 15000, decay |-> 4000,
                      spread |-> 7000, centerFreq |-> 5000, duration |-> 2000,
                      frequencyBandwidth |-> 6000, attackTime |-> 200,
                      sustainLevel |-> 1000, modulationRate |-> 0,
                      envelopeType |-> "burst" ] ]

\* product of two fixed point numbers
MulFP(a, b) == (a * b) \div FP

\* Math.log at the arguments the engine passes: the four centerFreq values
\* (fixed point) and minFreq, maxFreq (Hz); results in fixed point
Log(x) ==
    CASE x = 1000 -> 0 - 23026      \* ln 0.1
      [] x = 3000 -> 0 - 12040      \* ln 0.3
      [] x = 5000 -> 0 - 6931       \* ln 0.5
      [] x = 6000 -> 0 - 5108       \* ln 0.6
      [] x = 100 * FP -> 46052      \* ln 100
      [] x = 6000 * FP -> 86995     \* ln 6000

\* WaveEngine.frequencyToAngle
FrequencyToAngle(frequency) ==
    LET logFreq    == Log(frequency)
        logMin     == Log(params.minFreq * FP)
        logMax     == Log(params.maxFreq * FP)
        normalized == ((logFreq - logMin) * FP) \div (logMax - logMin)
    IN  MulFP(normalized - FP \div 2, params.arcSpan)

----------------------------------------------------------------------------
(* WaveEngine.generateWave *)

\* `wave_${this.waveId++}`
SWaveIdString(n) == <<"wave_", n>>

SNewWave(phoneticType, now, n) ==
    [ id          |-> SWaveIdString(n),
      birthTime   |-> now,
      frequency   |-> phoneticParams[phoneticType].freq,
      amplitude   |-> phoneticParams[phoneticType].amplitude,
      decay       |-> phoneticParams[phoneticType].decay,
      type        |-> phoneticType,
      centerAngle |-> FrequencyToAngle(phoneticParams[phoneticType].centerFreq),
      spread      |-> MulFP(phoneticParams[phoneticType].spread,
                            phoneticParams[phoneticType].frequencyBandwidth) ]

\* clock units after which updateTime drops a wave of this type by age:
\* params.duration * 25 units of time
SLifetime(phoneticType) ==
    (phoneticParams[phoneticType].duration * 25 * TimeScale) \div FP

SGenerateWave(phoneticType) ==
    /\ engine = "simple"
    /\ Len(swaves) < MaxWaves
    /\ swaveId < MaxId
    /\ stime + SLifetime(phoneticType) <= SMaxTime
    /\ swaves' = Push(swaves, SNewWave(phoneticType, stime, swaveId))
    /\ swaveId' = swaveId + 1
    /\ stime' = stime
    /\ issued' = issued \cup {SWaveIdString(swaveId)}
    /\ lastOp' = "generateWave"
    /\ activeSpectrograms' = <<>>
    /\ retired' = <<>>
    /\ count' = 0
    /\ height' = 0
    /\ sampled' = << >>
    /\ UNCHANGED <<engine, pureVars, polarVars>>

----------------------------------------------------------------------------
(* WaveEngine.updateTime *)

\* step lengths tried, in clock units of 0.05
SDeltaTimes == {0, 99, 100, 350, 375}

\* age < maxAge, maxAge = params.duration * 25 (age in clock units,
\* duration in fixed point; both sides multiplied by TimeScale * FP)
YoungEnough(wave, now) ==
    (now - wave.birthTime) * FP
        < phoneticParams[wave.type].duration * 25 * TimeScale

\* WaveEngine.getWaveRadius: age * waveSpeed, in fixed point (800 / 20 is
\* integral, so the quotient is exact)
GetWaveRadius(wave, now) ==
    ((now - wave.birthTime) * params.waveSpeed) \div TimeScale

\* variant: the field ends at radius 1
InsideField_Near(wave, now) == GetWaveRadius(wave, now) < FP

\* this.getWaveRadius(wave) < this.params.maxRadius
InsideField(wave, now) == GetWaveRadius(wave, now) < params.maxRadius * FP

Keep(ws, now) ==
    SelectSeq(ws, LAMBDA wave : YoungEnough(wave, now) /\ InsideField(wave, now))

\* this.time += deltaTime
STimeAfter(now, deltaTime) == now + deltaTime

SUpdateTime(deltaTime) ==
    /\ engine = "simple"
    /\ stime < SMaxTime
    /\ stime' = STimeAfter(stime, deltaTime)
    /\ swaves' = Keep(swaves, stime')
    /\ lastOp' = "updateTime"
    /\ activeSpectrograms' = <<>>
    /\ retired' = <<>>
    /\ count' = 0
    /\ height' = 0
    /\ sampled' = << >>
    /\ UNCHANGED <<engine, pureVars, swaveId, issued, polarVars>>

----------------------------------------------------------------------------
(* WaveEngine.calculateHeightAtPosition *)

Abs(x) == IF x < 0 THEN 0 - x ELSE x
Max(a, b) == IF a > b THEN a ELSE b
Min(a, b) == IF a < b THEN a ELSE b

Pi == 31416     \* Math.PI in fixed point

\* Math.cos on [0, PI / 2], by its Taylor polynomial of degree 6
\* (Horner form, so that every product stays small)
Cos(x) ==
    LET x2 == MulFP(x, x)
        t3 == FP - x2 \div 30
        t2 == FP - MulFP(x2 \div 12, t3)
    IN  FP - MulFP(x2 \div 2, t2)

\* Math.sin(PI * u): u is reduced to a quarter turn, then the Taylor
\* polynomial of degree 7 is taken (Horner form)
SinPi(u) ==
    LET r    == u % (2 * FP)                        \* one full turn is u = 2
        sign == IF r >= FP THEN 0 - 1 ELSE 1
        h    == IF r >= FP THEN r - FP ELSE r      \* half turn
        q    == IF h > FP \div 2 THEN FP - h ELSE h \* quarter turn
        x    == MulFP(Pi, q)
        x2   == MulFP(x, x)
        t3   == FP - x2 \div 42
        t2   == FP - MulFP(x2 \div 20, t3)
        t1   == FP - MulFP(x2 \div 6, t2)
    IN  sign * MulFP(x, t1)

\* Math.exp(-y) for 0 <= y <= 1, by its Taylor polynomial of degree 6
ExpNegUnit(y) ==
    LET y2 == MulFP(y, y)
        y3 == MulFP(y2, y)
        y4 == MulFP(y3, y)
        y5 == MulFP(y4, y)
        y6 == MulFP(y5, y)
    IN  FP - y + y2 \div 2 - y3 \div 6 + y4 \div 24 - y5 \div 120 + y6 \div 720

\* Math.exp(-y) for 0 <= y <= 8: exp(-y) = exp(-y / 8) ^ 8
ExpNeg(y) ==
    LET e1 == ExpNegUnit(y \div 8)
        e2 == MulFP(e1, e1)
        e4 == MulFP(e2, e2)
    IN  MulFP(e4, e4)

\* WaveEngine.calculateEnvelope; age in clock units
CalculateEnvelope(type, age) ==
    LET p             == phoneticParams[type]
        normalizedAge == (age * FP) \div SLifetime(type)
    IN  CASE p.envelopeType = "sustained" ->
               IF normalizedAge < p.attackTime
               THEN MulFP(p.amplitude, (normalizedAge * FP) \div p.attackTime)
               ELSE IF normalizedAge < (8 * FP) \div 10
               THEN MulFP(p.amplitude, p.sustainLevel)
               ELSE MulFP(MulFP(p.amplitude, p.sustainLevel),
                          (FP - normalizedAge) * 5)
          [] p.envelopeType = "modulated" ->
               MulFP(MulFP(p.amplitude, ExpNeg(MulFP(normalizedAge, p.decay))),
                     FP + SinPi((2 * p.modulationRate * age * FP) \div TimeScale)
                              \div 2)
          [] p.envelopeType = "burst" ->
               IF normalizedAge < p.attackTime
               THEN MulFP(p.amplitude, (normalizedAge * FP) \div p.attackTime)
               ELSE MulFP(MulFP(p.amplitude, p.sustainLevel),
                          ExpNeg(MulFP(normalizedAge, p.decay) * 10))
          [] p.envelopeType = "broadband" ->
               MulFP(MulFP(p.amplitude, p.sustainLevel),
                     ExpNeg(MulFP(normalizedAge, p.decay) \div 2))

\* Math.abs(time * this.params.maxRadius - waveRadius)
DistanceFromWave(wave, t, now) ==
    Abs(t * params.maxRadius - GetWaveRadius(wave, now))

\* variant: only the right half mapped to an angle
FoldedAngle_RightOnly(frequency) ==
    LET rightHalfFreq == IF frequency >= FP \div 2
                         THEN (frequency - FP \div 2) * 2 ELSE 0
    IN  MulFP(rightHalfFreq, params.arcSpan \div 2)

\* the angle of the sample after folding the two halves onto each other
FoldedAngle(frequency) ==
    LET leftHalfFreq  == IF frequency < FP \div 2
                         THEN (FP \div 2 - frequency) * 2 ELSE 0
        rightHalfFreq == IF frequency >= FP \div 2
                         THEN (frequency - FP \div 2) * 2 ELSE 0
        activeFreq    == Max(leftHalfFreq, rightHalfFreq)
    IN  MulFP(activeFreq, params.arcSpan \div 2)

AngleDiff(wave, frequency) ==
    Abs(FoldedAngle(frequency) - Abs(wave.centerAngle))

\* variant: the angular window is not tested
Contribution_NoWindow(wave, frequency, t, now) ==
    IF DistanceFromWave(wave, t, now) < 2 * FP
    THEN LET envelopeAmplitude ==
                 CalculateEnvelope(wave.type, now - wave.birthTime)
             radialFactor ==
                 ExpNeg((DistanceFromWave(wave, t, now) * 8) \div 10)
             frequencyFactor ==
                 SinPi((wave.frequency * DistanceFromWave(wave, t, now))
                           \div 100)
         IN  MulFP(MulFP(envelopeAmplitude, radialFactor), frequencyFactor)
    ELSE 0

\* what one wave adds to totalHeight
Contribution(wave, frequency, t, now) ==
    IF DistanceFromWave(wave, t, now) < 2 * FP
    THEN IF AngleDiff(wave, frequency) <= wave.spread
         THEN LET envelopeAmplitude ==
                      CalculateEnvelope(wave.type, now - wave.birthTime)
                  angularFactor ==
                      Cos((AngleDiff(wave, frequency) * (Pi \div 2))
                              \div wave.spread)
                  radialFactor ==
                      ExpNeg((DistanceFromWave(wave, t, now) * 8) \div 10)
                  frequencyFactor ==
                      SinPi((wave.frequency * DistanceFromWave(wave, t, now))
                                \div 100)
              IN  MulFP(MulFP(MulFP(envelopeAmplitude, angularFactor),
                              radialFactor), frequencyFactor)
         ELSE 0
    ELSE 0

RECURSIVE TotalHeight(_, _, _, _)
TotalHeight(ws, frequency, t, now) ==
    IF ws = << >> THEN 0
    ELSE Contribution(Head(ws), frequency, t, now)
            + TotalHeight(Tail(ws), frequency, t, now)

\* variant: no sample is rejected
OutOfBounds_Never(frequency, t) == FALSE

\* the bounds check on the sample coordinates
OutOfBounds(frequency, t) ==
    frequency < 0 \/ frequency > FP \/ t < 0 \/ t > FP

HeightAtPosition(ws, frequency, t, now) ==
    IF OutOfBounds(frequency, t)
    THEN 0
    ELSE TotalHeight(ws, frequency, t, now)

\* sample coordinates tried: inside, on the edges of and outside [0, 1]
SampleCoords ==
    { 0 - FP \div 10, 0, FP \div 4, FP \div 2, (3 * FP) \div 4, FP,
      FP + FP \div 10 }

\* the points sampled: every sample coordinate on the line frequency = 1/4
\* and on the line time = 1/4
SamplePoints ==
    { p \in SampleCoords \X SampleCoords :
        p[1] = FP \div 4 \/ p[2] = FP \div 4 }

CalculateHeightAtPosition(frequency, t) ==
    /\ engine = "simple"
    /\ height' = HeightAtPosition(swaves, frequency, t, stime)
    /\ sampled' = <<frequency, t>>
    /\ lastOp' = "calculateHeightAtPosition"
    /\ activeSpectrograms' = <<>>
    /\ retired' = <<>>
    /\ count' = 0
    /\ UNCHANGED <<engine, pureVars, simpleVars, issued, polarVars>>

----------------------------------------------------------------------------
(* WaveEngine.getActiveWaveCount and reset *)

\* return this.waves.length
SActiveWaveCount(ws) == Len(ws)

SGetActiveWaveCount ==
    /\ engine = "simple"
    /\ count' = SActiveWaveCount(swaves)
    /\ height' = 0
    /\ sampled' = << >>
    /\ lastOp' = "getActiveWaveCount"
    /\ activeSpectrograms' = <<>>
    /\ retired' = <<>>
    /\ UNCHANGED <<engine, pureVars, simpleVars, issued, polarVars>>

SResetWaves  == << >>
SResetTime   == 0
SResetWaveId == 0

SReset ==
    /\ engine = "simple"
    /\ swaves' = SResetWaves
    /\ stime' = SResetTime
    /\ swaveId' = SResetWaveId
    /\ lastOp' = "reset"
    /\ activeSpectrograms' = <<>>
    /\ retired' = <<>>
    /\ count' = 0
    /\ height' = 0
    /\ sampled' = << >>
    /\ UNCHANGED <<engine, pureVars, issued, polarVars>>

----------------------------------------------------------------------------
(* CoordinateTransform *)

\* variant: no width at the mouth
coordinateParams_NoMouth ==
    [ arcSpan    |-> 10472,
      maxRadius  |-> 10,
      mouthWidth |-> 0 ]

\* CoordinateTransform.params
coordinateParams ==
    [ arcSpan    |-> 10472,             \* Math.PI / 3
      maxRadius  |-> 10,
      mouthWidth |-> (3 * FP) \div 10 ] \* 0.3

Sign(x) == IF x < 0 THEN 0 - 1 ELSE 1

\* a * b and a / b on fixed point numbers, rounded to the nearest unit.
\* Like the floating point operations they stand for, both commute with a
\* change of sign of an operand.
Times(a, b) ==
    LET product == a * b
    IN  Sign(product) * ((Abs(product) + FP \div 2) \div FP)
Over(a, b)  ==
    Sign(a) * Sign(b) * ((Abs(a) * FP + Abs(b) \div 2) \div Abs(b))

\* Math.tan on [0, PI / 4], by its Taylor polynomial of degree 9 (Horner
\* form)
Tan(x) ==
    LET x2 == MulFP(x, x)
        t4 == (17 * FP) \div 315 + MulFP(x2, (62 * FP) \div 2835)
        t3 == (2 * FP) \div 15 + MulFP(x2, t4)
        t2 == FP \div 3 + MulFP(x2, t3)
        t1 == FP + MulFP(x2, t2)
    IN  MulFP(x, t1)

\* logical.frequency < 0.5
IsLeftHalf(frequency) == frequency < FP \div 2

NormalizedFreq(frequency) ==
    IF IsLeftHalf(frequency)
    THEN (FP \div 2 - frequency) * 2
    ELSE (frequency - FP \div 2) * 2

\* variant: the left half mapped to positive angles as well
Angle_Unsigned(frequency) ==
    Times(NormalizedFreq(frequency), coordinateParams.arcSpan \div 2)

Angle(frequency) ==
    IF IsLeftHalf(frequency)
    THEN Times(0 - NormalizedFreq(frequency), coordinateParams.arcSpan \div 2)
    ELSE Times(NormalizedFreq(frequency), coordinateParams.arcSpan \div 2)

\* this.params.mouthWidth + (radius * Math.tan(this.params.arcSpan / 2))
CurrentWidth(radius) ==
    coordinateParams.mouthWidth
        + Times(radius, Tan(coordinateParams.arcSpan \div 2))

\* CoordinateTransform.logicalToDisplay
LogicalToDisplay(lg) ==
    LET radius == lg.time * coordinateParams.maxRadius
    IN  [ x |-> Times(CurrentWidth(radius),
                      Over(Angle(lg.frequency),
                           coordinateParams.arcSpan \div 2)),
          y |-> 0,
          z |-> radius ]

\* variant: the value passed through
Clamp01_Unclamped(v) == v

\* Math.max(0, Math.min(1, v))
Clamp01(v) == Max(0, Min(FP, v))

\* variant: the halves told apart the wrong way round
DisplayIsLeftHalf_Swapped(x) == x > 0

\* display.x < 0
DisplayIsLeftHalf(x) == x < 0

\* CoordinateTransform.displayToLogical
DisplayToLogical(d) ==
    LET radius       == d.z
        t            == Over(radius, coordinateParams.maxRadius * FP)
        currentWidth == CurrentWidth(radius)
    IN  IF currentWidth = 0
        THEN [ frequency |-> FP \div 2, time |-> Clamp01(t) ]
        ELSE LET normalizedPosition == Over(Abs(d.x), currentWidth)
                 normalizedFreq     == Clamp01(normalizedPosition)
                 frequency ==
                     IF DisplayIsLeftHalf(d.x)
                     THEN FP \div 2 - Times(normalizedFreq, FP \div 2)
                     ELSE FP \div 2 + Times(normalizedFreq, FP \div 2)
             IN  [ frequency |-> Clamp01(frequency), time |-> Clamp01(t) ]

\* CoordinateTransform.isWithinBounds
IsWithinBounds(lg) ==
    /\ lg.frequency >= 0 /\ lg.frequency <= FP
    /\ lg.time >= 0 /\ lg.time <= FP

\* steps of the regular grid generateTestGrid lays over the logical domain
GridSteps == 21

\* the values f / (frequencySteps - 1), f = 0 .. frequencySteps - 1
GridValues == { (k * FP) \div (GridSteps - 1) : k \in 0..(GridSteps - 1) }

\* display coordinates tried: on the axis, just off it, in and out of the
\* wedge; before, at and beyond the mouth and the outer edge; and the
\* distance behind the mouth at which the width is 0
ZeroWidthZ == CHOOSE z \in (0 - FP)..0 : CurrentWidth(z) = 0
ProbeX == { 0 - 10 * FP, 0 - FP, 0 - 1, 0, 1, FP, 10 * FP }
ProbeZ == { 0 - FP, ZeroWidthZ, 0, FP \div 2, 5 * FP, 10 * FP, 12 * FP }
Probes == { [ x |-> x, y |-> 0, z |-> z ] : x \in ProbeX, z \in ProbeZ }

\* not computed yet
NoLogical == [ frequency |-> 0 - 1, time |-> 0 - 1 ]
NoDisplay == [ x |-> 0, y |-> 0 - 1, z |-> 0 ]

CoordIdle ==
    /\ logical = NoLogical
    /\ display = NoDisplay
    /\ mirrored = NoDisplay
    /\ argument = NoDisplay
    /\ restored = NoLogical
    /\ gridArgs = << >>
    /\ points = << >>

\* logicalToDisplay called on the point under test
TransformPoint ==
    /\ logical # NoLogical
    /\ display' = LogicalToDisplay(logical)
    /\ lastOp' = "logicalToDisplay"
    /\ UNCHANGED <<logical, mirrored, argument, restored, gridVars,
                   engineVars, synthVars>>

\* logicalToDisplay called on the mirror image (1 - f, t) of the point
TransformMirrorImage ==
    /\ logical # NoLogical
    /\ mirrored' = LogicalToDisplay([ frequency |-> FP - logical.frequency,
                                      time      |-> logical.time ])
    /\ lastOp' = "logicalToDisplay"
    /\ UNCHANGED <<logical, display, argument, restored, gridVars,
                   engineVars, synthVars>>

\* displayToLogical called on a display coordinate
TransformBack(d) ==
    /\ d # NoDisplay
    /\ argument' = d
    /\ restored' = DisplayToLogical(d)
    /\ lastOp' = "displayToLogical"
    /\ UNCHANGED <<logical, display, mirrored, gridVars, engineVars,
                   synthVars>>

\* the grid sizes tried: small ones, the default, and one fine enough for
\* two rows to lie nearer the mouth than 0.05
StepCounts == 2..MaxSteps \cup { GridSteps, 2 * GridSteps - 1 }

\* f / (frequencySteps - 1) and t / (timeSteps - 1)
GridCoordinate(k, steps) == (k * FP) \div (steps - 1)

\* variant: the row at 0.05 is skipped as well
TooCloseToMouth_Inclusive(t) == t <= FP \div 20

\* if (time < 0.05) continue
TooCloseToMouth(t) == t < FP \div 20

\* the inner loop of generateTestGrid from t on, for one value of f
RECURSIVE TestGridRow(_, _, _, _)
TestGridRow(f, t, frequencySteps, timeSteps) ==
    IF t >= timeSteps THEN << >>
    ELSE (IF TooCloseToMouth(GridCoordinate(t, timeSteps))
          THEN << >>
          ELSE << LogicalToDisplay(
                      [ frequency |-> GridCoordinate(f, frequencySteps),
                        time      |-> GridCoordinate(t, timeSteps) ]) >>)
            \o TestGridRow(f, t + 1, frequencySteps, timeSteps)

\* the outer loop of generateTestGrid from f on
RECURSIVE TestGridFrom(_, _, _)
TestGridFrom(f, frequencySteps, timeSteps) ==
    IF f >= frequencySteps THEN << >>
    ELSE TestGridRow(f, 0, frequencySteps, timeSteps)
            \o TestGridFrom(f + 1, frequencySteps, timeSteps)

\* generateTestGrid(frequencySteps, timeSteps)
GenerateTestGrid(frequencySteps, timeSteps) ==
    /\ gridArgs' = << frequencySteps, timeSteps >>
    /\ points' = TestGridFrom(0, frequencySteps, timeSteps)
    /\ lastOp' = "generateTestGrid"
    /\ UNCHANGED <<logical, display, mirrored, argument, restored,
                   engineVars, synthVars>>

----------------------------------------------------------------------------
(* PolarWaveEngine.generateSpectrogramFrame *)

FrequencyBins == 100
Bins == 0..(FrequencyBins - 1)      \* indices of frequencyBins

\* variant: the attack ramp starts one step up
Envelope_StartsUp(timeIndex, profile) ==
    IF timeIndex < profile.attackTime
    THEN ((timeIndex + 1) * FP) \div profile.attackTime
    ELSE profile.sustainLevel

\* the attack / sustain / decay envelope
Envelope(timeIndex, profile) ==
    IF timeIndex < profile.attackTime
    THEN (timeIndex * FP) \div profile.attackTime
    ELSE IF timeIndex > profile.duration - profile.decayTime
    THEN LET decayProgress ==
                 ((timeIndex - (profile.duration - profile.decayTime)) * FP)
                     \div profile.decayTime
         IN  FP - decayProgress
    ELSE profile.sustainLevel

\* if (phoneticType === 'trill' && profile.modulationRate)
\*     envelope *= 0.7 + 0.3 * Math.sin(normalizedTime * rate * Math.PI * 2)
Modulated(phoneticType, timeIndex, profile, envelope) ==
    IF phoneticType = "trill" /\ profile.modulationRate # 0
    THEN LET modulation ==
                 SinPi((2 * profile.modulationRate * timeIndex * FP)
                           \div profile.duration)
         IN  MulFP(envelope,
                   (7 * FP) \div 10 + MulFP((3 * FP) \div 10, modulation))
    ELSE envelope

\* PolarWaveEngine.frequencyToBinIndex
FrequencyToBinIndex(frequency) ==
    LET minFreq == 100
        maxFreq == 8000
    IN  ((frequency - minFreq) * (FrequencyBins - 1)) \div (maxFreq - minFreq)

\* Math.floor(profile.bandwidth / 80)
BandwidthBins(profile) == profile.bandwidth \div 80

\* Math.exp(-(distance * distance) / (2 * (b / 3) * (b / 3)))
Gaussian(distance, bandwidthBins) ==
    ExpNeg((9 * distance * distance * FP)
               \div (2 * bandwidthBins * bandwidthBins))

\* the bounds of the for loop around one peak
InWindow(i, binIndex, bandwidthBins) ==
    /\ i >= Max(0, binIndex - bandwidthBins)
    /\ i < Min(FrequencyBins, binIndex + bandwidthBins)

\* what one peak adds to bin i
PeakEnergy(i, centerFreq, profile, envelope) ==
    LET binIndex      == FrequencyToBinIndex(centerFreq)
        bandwidthBins == BandwidthBins(profile)
    IN  IF InWindow(i, binIndex, bandwidthBins)
        THEN MulFP(MulFP(profile.amplitude, envelope),
                   Gaussian(Abs(i - binIndex), bandwidthBins))
        ELSE 0

\* profile.peakFrequencies.forEach(...): what all peaks add to bin i
RECURSIVE PeaksEnergy(_, _, _, _)
PeaksEnergy(i, peaks, profile, envelope) ==
    IF peaks = << >> THEN 0
    ELSE PeakEnergy(i, Head(peaks), profile, envelope)
            + PeaksEnergy(i, Tail(peaks), profile, envelope)

\* Math.random() for bin i, in fixed point: a number in [0, 1).  The draws
\* of one frame follow one of a few patterns: all 0, all just below 1, or
\* a pattern that varies from bin to bin
RandomDraw(seed, i) ==
    CASE seed = 0 -> 0
      [] seed = 1 -> FP - 1
      [] OTHER    -> ((i * seed + seed) % 5) * (FP \div 5)

\* frequencyBins[i] += Math.random() * 0.1 * envelope, fricatives only
NoiseEnergy(phoneticType, i, envelope, seed) ==
    IF phoneticType = "fricative"
    THEN MulFP(MulFP(RandomDraw(seed, i), FP \div 10), envelope)
    ELSE 0

\* frequencyBins as it stands before the normalization
RawBins(phoneticType, timeIndex, profile, seed) ==
    LET envelope == Modulated(phoneticType, timeIndex, profile,
                              Envelope(timeIndex, profile))
    IN  [ i \in Bins |->
            PeaksEnergy(i, profile.peakFrequencies, profile, envelope)
                + NoiseEnergy(phoneticType, i, envelope, seed) ]

\* variant: the first bin taken for the maximum
MaxValue_First(bins) == bins[0]

\* Math.max(...frequencyBins)
MaxValue(bins) ==
    CHOOSE m \in { bins[i] : i \in Bins } : \A i \in Bins : bins[i] <= m

\* variant: the division done whatever the maximum
ShouldNormalize_Always(maxValue) == TRUE

\* if (maxValue > 0)
ShouldNormalize(maxValue) == maxValue > 0

\* the value 0 / 0 gives
NaN == 0 - FP

\* frequencyBins[i] / maxValue
Divide(a, b) == IF b = 0 THEN NaN ELSE (a * FP) \div b

\* Math.max(0, x), which is NaN for NaN
AtLeastZero(x) == IF x = NaN THEN NaN ELSE Max(0, x)

\* frequencyBins as the normalization leaves it
Normalized(bins, maxValue) ==
    IF ShouldNormalize(maxValue)
    THEN [ i \in Bins |-> AtLeastZero(Divide(bins[i], maxValue)) ]
    ELSE bins

\* no frame returned yet
NoFrame == [ timeIndex |-> 0 - 1, frequencyBins |-> << >> ]

SynthIdle ==
    /\ synType = "none"
    /\ synIndex = 0
    /\ synEnvelope = 0
    /\ rawBins = << >>
    /\ divided = FALSE
    /\ frame = NoFrame
    /\ prevFrame = NoFrame
    /\ bilateral = << >>

\* one pass of the loop of generateWave,
\*   wave.spectrograms.push(this.generateSpectrogramFrame(type, t, profile)),
\* with the random numbers the call draws following pattern seed
GenerateSpectrogramFrame(seed) ==
    /\ synType \in PhoneticType
    /\ synIndex < MaxTimeIndex(Profile(synType))
    /\ synEnvelope' = Envelope(synIndex, Profile(synType))
    /\ rawBins' = RawBins(synType, synIndex, Profile(synType), seed)
    /\ \E maxValue \in { MaxValue(rawBins') } :
          /\ divided' = ShouldNormalize(maxValue)
          /\ frame' = [ timeIndex     |-> synIndex,
                        frequencyBins |-> Normalized(rawBins', maxValue) ]
    /\ prevFrame' = frame
    /\ bilateral' = << >>
    /\ synIndex' = synIndex + 1
    /\ lastOp' = "generateSpectrogramFrame"
    /\ UNCHANGED <<synType, engineVars, coordVars>>

----------------------------------------------------------------------------
(* PolarField *)

fieldParams ==
    [ totalAngleSpan |-> (Pi * 40) \div 180,
      halfAngleSpan  |-> (Pi * 20) \div 180,
      maxRadius      |-> 15,
      timeIntervals  |-> 1000,
      frequencyBins  |-> 100 ]

\* Math.sin, by its Taylor polynomial; rounding is symmetric in the sign
Sin(x) ==
    LET x2 == Times(x, x)
        t3 == FP - x2 \div 42
        t2 == FP - Times(x2 \div 20, t3)
        t1 == FP - Times(x2 \div 6, t2)
    IN  Times(x, t1)

\* PolarField.polarToCartesian
PolarToCartesian(polar) ==
    LET radius == polar.radius * fieldParams.maxRadius
    IN  [ x |-> Times(radius, Sin(polar.angle)),
          y |-> 0,
          z |-> Times(radius, Cos(polar.angle)) ]

\* PolarField.frequencyToAngle
FieldFrequencyToAngle(frequencyIndex) ==
    LET normalizedFreq == Over(frequencyIndex, fieldParams.frequencyBins - 1)
    IN  Times(normalizedFreq, fieldParams.halfAngleSpan)

\* PolarField.timeToRadius
TimeToRadius(timeIndex) == Over(timeIndex, fieldParams.timeIntervals - 1)

\* variant: the left half is not mirrored
LeftAngle_Same(baseAngle) == baseAngle

\* angle: -baseAngle
LeftAngle(baseAngle) == 0 - baseAngle

\* the point pushed for the right half (positive angles) of one bin
RightCartesian(spectrogram, freqIndex) ==
    [ PolarToCartesian([ radius |-> TimeToRadius(spectrogram.timeIndex),
                         angle  |-> FieldFrequencyToAngle(freqIndex) ])
        EXCEPT !.y = spectrogram.frequencyBins[freqIndex] ]

\* the point pushed for the left half (negative angles) of one bin
LeftCartesian(spectrogram, freqIndex) ==
    [ PolarToCartesian([ radius |-> TimeToRadius(spectrogram.timeIndex),
                         angle  |-> LeftAngle(
                                        FieldFrequencyToAngle(freqIndex)) ])
        EXCEPT !.y = spectrogram.frequencyBins[freqIndex] ]

\* the array the loop of createBilateralSpectrogram fills: for each bin in
\* turn the right point, then the left point
BilateralPoints(spectrogram) ==
    [ k \in 1..(2 * FrequencyBins) |->
        IF k % 2 = 1
        THEN RightCartesian(spectrogram, (k - 1) \div 2)
        ELSE LeftCartesian(spectrogram, (k - 1) \div 2) ]

\* createBilateralSpectrogram(spectrogram) on the frame the synthesizer
\* returned last
CreateBilateralSpectrogram ==
    /\ lastOp = "generateSpectrogramFrame"
    /\ bilateral' = BilateralPoints(frame)
    /\ lastOp' = "createBilateralSpectrogram"
    /\ UNCHANGED <<synType, synIndex, synEnvelope, rawBins, divided, frame,
                   prevFrame, engineVars, coordVars>>

----------------------------------------------------------------------------
(* Specifications of the pure functions *)

\* generateWave(phoneticType) about to build the frames of a wave
SynthInit ==
    /\ engine = "polar"
    /\ waves = << >> /\ time = 0 /\ waveId = 0
    /\ swaves = << >> /\ stime = 0 /\ swaveId = 0
    /\ lastOp = "generateWave"
    /\ activeSpectrograms = << >> /\ retired = << >>
    /\ count = 0 /\ height = 0 /\ sampled = << >> /\ issued = {}
    /\ synType \in PhoneticType
    /\ synIndex = 0
    /\ synEnvelope = 0
    /\ rawBins = << >>
    /\ divided = FALSE
    /\ frame = NoFrame
    /\ prevFrame = NoFrame
    /\ bilateral = << >>
    /\ CoordIdle

SynthNext ==
    \/ \E seed \in 0..MaxSeed : GenerateSpectrogramFrame(seed)
    \/ CreateBilateralSpectrogram

SynthSpec == SynthInit /\ [][SynthNext]_vars

CoordInit ==
    /\ engine = "simple"
    /\ waves = << >> /\ time = 0 /\ waveId = 0
    /\ swaves = << >> /\ stime = 0 /\ swaveId = 0
    /\ lastOp = "new"
    /\ activeSpectrograms = << >> /\ retired = << >>
    /\ count = 0 /\ height = 0 /\ sampled = << >> /\ issued = {}
    /\ SynthIdle
    /\ logical \in [ frequency : GridValues, time : GridValues ]
                     \cup { NoLogical }
    /\ display = NoDisplay
    /\ mirrored = NoDisplay
    /\ argument = NoDisplay
    /\ restored = NoLogical
    /\ gridArgs = << >>
    /\ points = << >>

\* A grid point is taken to display coordinates, as is its mirror image,
\* and the display coordinate is taken back; or, with no point under test,
\* displayToLogical is handed an arbitrary display coordinate, as the mesh
\* update does with the vertices, after a test grid may have been
\* generated.
CoordNext ==
    \/ TransformPoint
    \/ TransformMirrorImage
    \/ \E d \in (IF logical = NoLogical THEN Probes ELSE {display}) :
            TransformBack(d)
    \/ \E frequencySteps \in StepCounts, timeSteps \in StepCounts :
            /\ logical = NoLogical /\ argument = NoDisplay
            /\ gridArgs = << >>
            /\ GenerateTestGrid(frequencySteps, timeSteps)

CoordSpec == CoordInit /\ [][CoordNext]_vars

----------------------------------------------------------------------------

Init ==
    /\ engine \in {"polar", "simple"}
    /\ waves = << >>
    /\ time = 0
    /\ waveId = 0
    /\ swaves = << >>
    /\ stime = 0
    /\ swaveId = 0
    /\ lastOp = "new"
    /\ activeSpectrograms = << >>
    /\ retired = << >>
    /\ count = 0
    /\ height = 0
    /\ sampled = << >>
    /\ issued = {}
    /\ SynthIdle
    /\ CoordIdle

Next ==
    \/ \E phoneticType \in PhoneticType : GenerateWave(phoneticType)
    \/ \E deltaTime \in DeltaTimes : UpdateTime(deltaTime)
    \/ GetActiveWaveCount
    \/ Reset
    \/ \E phoneticType \in PhoneticType : SGenerateWave(phoneticType)
    \/ \E deltaTime \in SDeltaTimes : SUpdateTime(deltaTime)
    \/ SGetActiveWaveCount
    \/ \E p \in SamplePoints : CalculateHeightAtPosition(p[1], p[2])
    \/ SReset

Spec == Init /\ [][Next]_vars

\* The render loop calls updateTime with a positive step on every animation
\* frame (requestAnimationFrame(animate)), so a time advance that stays
\* possible is eventually made.
Advance == \E deltaTime \in DeltaTimes \ {0} : UpdateTime(deltaTime)

LiveSpec == Spec /\ WF_vars(Advance)

----------------------------------------------------------------------------
(* The render loop of the visualizer on the polar engine *)

\* waveEngine.updateTime(0.1), in clock units
RenderStep == 2

RenderInit == Init /\ engine = "polar"

\* a key press between two ticks of the loop: generateWave(phoneticType)
RenderGenerateWave(phoneticType) ==
    /\ Len(waves) < MaxRenderWaves
    /\ time <= MaxBirthTick * RenderStep
    /\ GenerateWave(phoneticType)

\* one pass of animate
Animate == UpdateTime(RenderStep)

RenderNext ==
    \/ \E phoneticType \in PhoneticType : RenderGenerateWave(phoneticType)
    \/ Animate

RenderSpec == RenderInit /\ [][RenderNext]_vars

----------------------------------------------------------------------------
(* Properties *)

Polar  == engine = "polar"
Simple == engine = "simple"

HeldIds(ws) == { ws[i].id : i \in 1..Len(ws) }

HoldsPlosive == \E i \in 1..Len(waves) : waves[i].type = "plosive"

\* C1: a plosive wave is gone once the clock has advanced 200 frames
\* (20 units of time at 10 frames per unit) past its birth: while the render
\* loop keeps advancing the clock, an engine holding a plosive wave reaches
\* an active wave count of 0, no plosive wave is ever held at an age of 200
\* frames or more, and a count of 0 becomes positive only by generateWave.
C1_PlosiveExpires ==
    /\ (Polar /\ HoldsPlosive) ~> (ActiveWaveCount(waves) = 0)
    /\ [](\A i \in 1..Len(waves) :
            waves[i].type = "plosive"
                => (time - waves[i].birthTime) * 10 < 200 * TimeScale)
    /\ [][ (ActiveWaveCount(waves) = 0 /\ ActiveWaveCount(waves') # 0)
              => lastOp' = "generateWave" ]_vars

\* C1 witness: an updateTime call retired a plosive wave and left the
\* engine without waves
C1_Witness ==
    /\ Polar
    /\ lastOp = "updateTime"
    /\ \E i \in 1..Len(retired) : retired[i].type = "plosive"
    /\ ActiveWaveCount(waves) = 0

\* a generateWave step of the polar engine, and the wave it appended
PolarGenerated == Polar /\ lastOp' = "generateWave"
Appended       == waves'[Len(waves')]

\* C2 as stated: after a reset that follows three generated waves the count
\* is 0 and the id given to the next vowel wave was never issued before
C2_Original ==
    [][ /\ (Polar /\ lastOp' = "reset") => ActiveWaveCount(waves') = 0
        /\ ( /\ PolarGenerated
             /\ lastOp = "reset"
             /\ Cardinality(issued) = 3
             /\ Appended.type = "vowel" )
           => Appended.id \notin issued ]_vars

\* C2 amended: after reset the count is 0 and numbering restarts: the next
\* wave gets the id wave-0 again; every generateWave assigns an id that no
\* wave held by the engine carries
C2_IdsRestartAfterReset ==
    [][ /\ (Polar /\ lastOp' = "reset") => ActiveWaveCount(waves') = 0
        /\ PolarGenerated
           => /\ Appended.id \notin HeldIds(waves)
              /\ lastOp = "reset" => Appended.id = <<"wave-", 0>> ]_vars

\* C2 witness: three ids were issued, the engine was reset, and a vowel wave
\* generated afterwards is the only wave
C2_Witness ==
    /\ Polar
    /\ lastOp = "generateWave"
    /\ Cardinality(issued) = 3
    /\ Len(waves) = 1
    /\ waves[1].type = "vowel"
    /\ waveId = 1

\* C3: reset leaves either engine in the state of a freshly constructed
\* one: no waves, clock 0, id counter 0
C3_ResetIsInitialState ==
    lastOp = "reset"
        => /\ waves = << >> /\ time = 0 /\ waveId = 0
           /\ swaves = << >> /\ stime = 0 /\ swaveId = 0

\* C3 witness: a reset after waves had been generated
C3_Witness ==
    /\ lastOp = "reset"
    /\ Cardinality(issued) >= 2

\* an updateTime step of the polar engine
PolarUpdated == Polar /\ lastOp' = "updateTime"

RetiredIds(rs) == { rs[j].id : j \in 1..Len(rs) }

\* the wave holds index idx, is active, and its frame at idx was returned
Surfaced(ws, frames, id, idx) ==
    \E j \in 1..Len(ws) :
        /\ ws[j].id = id
        /\ ws[j].isActive
        /\ ws[j].currentTimeIndex = idx
        /\ idx < Len(ws[j].spectrograms)
        /\ \E k \in 1..Len(frames) : frames[k] = ws[j].spectrograms[idx + 1]

\* C4 as stated: updateTime expires a wave exactly when the recomputed index
\* floor((clock - birthTime) * 10) is greater than maxTimeIndex; at every
\* index up to and including maxTimeIndex the wave stays, holds that index,
\* and its frame at that index is returned
C4_Original ==
    [][ PolarUpdated =>
          \A i \in 1..Len(waves) :
             LET idx == ((time' - waves[i].birthTime) * 10) \div TimeScale
             IN  /\ (idx > waves[i].maxTimeIndex)
                        <=> (waves[i].id \in RetiredIds(retired'))
                 /\ (idx <= waves[i].maxTimeIndex)
                        => Surfaced(waves', activeSpectrograms',
                                    waves[i].id, idx) ]_vars

\* C4 amended: updateTime expires a wave exactly when the recomputed index
\* reaches maxTimeIndex (index >= maxTimeIndex); at every smaller index the
\* wave stays, holds that index, and its frame at that index is returned
C4_ExpiresAtMaxTimeIndex ==
    [][ PolarUpdated =>
          \A i \in 1..Len(waves) :
             LET idx == ((time' - waves[i].birthTime) * 10) \div TimeScale
             IN  /\ (idx >= waves[i].maxTimeIndex)
                        <=> (waves[i].id \in RetiredIds(retired'))
                 /\ (idx < waves[i].maxTimeIndex)
                        => Surfaced(waves', activeSpectrograms',
                                    waves[i].id, idx) ]_vars

\* C4 witness: a wave was retired at the index maxTimeIndex itself while
\* another wave stayed
C4_Witness ==
    /\ Polar
    /\ lastOp = "updateTime"
    /\ \E j \in 1..Len(retired) :
          ((time - retired[j].birthTime) * 10) \div TimeScale
              = retired[j].maxTimeIndex
    /\ Len(waves) >= 1

\* C5 as stated: a wave has one frame for each timeIndex 0..floor(duration),
\* that bound included, in order, and maxTimeIndex = floor(duration)
C5_Original ==
    \A i \in 1..Len(waves) :
        /\ waves[i].maxTimeIndex = phoneticProfiles[waves[i].type].duration
        /\ Len(waves[i].spectrograms) = waves[i].maxTimeIndex + 1
        /\ \A t \in 0..waves[i].maxTimeIndex :
              waves[i].spectrograms[t + 1].timeIndex = t

\* C5 amended: a wave has one frame for each timeIndex 0..floor(duration)-1,
\* floor(duration) frames in all, in order, and maxTimeIndex = floor(duration)
C5_FramesBelowMaxTimeIndex ==
    \A i \in 1..Len(waves) :
        /\ waves[i].maxTimeIndex = phoneticProfiles[waves[i].type].duration
        /\ Len(waves[i].spectrograms) = waves[i].maxTimeIndex
        /\ \A t \in 0..(waves[i].maxTimeIndex - 1) :
              waves[i].spectrograms[t + 1].timeIndex = t

\* C5 witness: generateWave has just appended a trill wave
C5_Witness ==
    /\ Polar
    /\ lastOp = "generateWave"
    /\ waves[Len(waves)].type = "trill"

\* C6: updateTime returns one frame per wave that is active after the call,
\* in the order of the waves, each the wave's frame at its currentTimeIndex
C6_OneFramePerActiveWave ==
    (Polar /\ lastOp = "updateTime")
        => /\ Len(activeSpectrograms) = ActiveWaveCount(waves)
           /\ Len(activeSpectrograms) = Len(waves)
           /\ \A i \in 1..Len(waves) :
                 /\ waves[i].currentTimeIndex >= 0
                 /\ waves[i].currentTimeIndex < Len(waves[i].spectrograms)
                 /\ activeSpectrograms[i]
                       = waves[i].spectrograms[waves[i].currentTimeIndex + 1]

\* C6 witness: an updateTime call retired one wave and returned a later
\* frame of the wave that stayed
C6_Witness ==
    /\ Polar
    /\ lastOp = "updateTime"
    /\ Len(retired) = 1
    /\ Len(activeSpectrograms) = 1
    /\ activeSpectrograms[1].timeIndex > 0

\* C7: every wave the polar engine holds has
\* 0 <= currentTimeIndex <= maxTimeIndex
C7_TimeIndexInRange ==
    \A i \in 1..Len(waves) :
        /\ 0 <= waves[i].currentTimeIndex
        /\ waves[i].currentTimeIndex <= waves[i].maxTimeIndex

\* C7 witness: a wave has been advanced to its last frame
C7_Witness ==
    /\ Polar
    /\ \E i \in 1..Len(waves) :
          waves[i].currentTimeIndex = waves[i].maxTimeIndex - 1

\* C8: between operations every wave in the set is active and the active
\* wave count is the size of the set; the waves an updateTime call retires
\* are out of the set when it returns; and only generateWave puts a wave
\* into the set
C8_ExpiredWavesPurged ==
    /\ [](\A i \in 1..Len(waves) : waves[i].isActive)
    /\ [](ActiveWaveCount(waves) = Len(waves))
    /\ [](RetiredIds(retired) \cap HeldIds(waves) = {})
    /\ [][ Polar =>
             /\ Len(waves') > Len(waves) => lastOp' = "generateWave"
             /\ lastOp' # "generateWave"
                   => HeldIds(waves') \subseteq HeldIds(waves)
             /\ PolarUpdated
                   => Len(waves') + Len(retired') = Len(waves) ]_vars

\* C8 witness: an updateTime call retired a wave from a set of two
C8_Witness ==
    /\ Polar
    /\ lastOp = "updateTime"
    /\ Len(retired) >= 1
    /\ Len(waves) + Len(retired) = 2

\* C9: every generateWave call raises the active wave count of its engine
\* by exactly one, and the wave it adds has one of the four types
C9_GenerateAddsOne ==
    [][ lastOp' = "generateWave" =>
          /\ Polar => /\ ActiveWaveCount(waves') = ActiveWaveCount(waves) + 1
                      /\ Appended.type \in PhoneticType
          /\ Simple => /\ SActiveWaveCount(swaves')
                            = SActiveWaveCount(swaves) + 1
                       /\ swaves'[Len(swaves')].type \in PhoneticType ]_vars

\* C9 witness: the simple engine holds two waves of different types, the
\* second just generated
C9_Witness ==
    /\ Simple
    /\ lastOp = "generateWave"
    /\ Len(swaves) = 2
    /\ swaves[1].type # swaves[2].type

\* C10: an operation other than updateTime and reset leaves the clock and
\* every wave already in the set as they were (it can only append a wave)
C10_OnlyUpdateTimeAges ==
    [][ lastOp' \notin {"updateTime", "reset"} =>
          /\ time' = time
          /\ stime' = stime
          /\ Len(waves') >= Len(waves)
          /\ SubSeq(waves', 1, Len(waves)) = waves
          /\ Len(swaves') >= Len(swaves)
          /\ SubSeq(swaves', 1, Len(swaves)) = swaves ]_vars

\* C10 witness: the height was sampled while the simple engine held two
\* waves and its clock had advanced
C10_Witness ==
    /\ Simple
    /\ lastOp = "calculateHeightAtPosition"
    /\ Len(swaves) = 2
    /\ stime > 0

\* C11: the clock never runs backwards: an updateTime call leaves the clock
\* of its engine at least where it was, the only other operation that
\* changes a clock is reset, which sets it to 0, and no wave an engine holds
\* has a negative age (clock - birthTime)
C11_ClockMonotonic ==
    /\ [][ /\ lastOp' = "updateTime" => (time' >= time /\ stime' >= stime)
           /\ (time' < time \/ stime' < stime)
                 => (lastOp' = "reset" /\ time' = 0 /\ stime' = 0)
           /\ lastOp' \notin {"updateTime", "reset"}
                 => (time' = time /\ stime' = stime) ]_vars
    /\ [](\A i \in 1..Len(waves) : time - waves[i].birthTime >= 0)
    /\ [](\A i \in 1..Len(swaves) : stime - swaves[i].birthTime >= 0)

\* C11 witness: updateTime has advanced the clock past the birth of a wave
\* that was itself generated after the clock had advanced
C11_Witness ==
    /\ Polar
    /\ lastOp = "updateTime"
    /\ \E i \in 1..Len(waves) :
          /\ waves[i].birthTime > 0
          /\ time > waves[i].birthTime

\* the two query operations
Queries == {"getActiveWaveCount", "calculateHeightAtPosition"}

\* C12: getActiveWaveCount (both engines) and calculateHeightAtPosition
\* leave the waves, the clock and the id counter of both engines as they
\* were, and the value returned is the one the same call returns again in
\* the state it leaves
C12_QueriesArePure ==
    [][ lastOp' \in Queries =>
          /\ waves' = waves /\ time' = time /\ waveId' = waveId
          /\ swaves' = swaves /\ stime' = stime /\ swaveId' = swaveId
          /\ (lastOp = lastOp' /\ sampled' = sampled)
                => (count' = count /\ height' = height)
          /\ (Polar /\ lastOp' = "getActiveWaveCount")
                => count' = Len(SelectSeq(waves', LAMBDA w : w.isActive))
          /\ (Simple /\ lastOp' = "getActiveWaveCount")
                => count' = Len(swaves')
          /\ lastOp' = "calculateHeightAtPosition"
                => height' = HeightAtPosition(swaves', sampled'[1],
                                              sampled'[2], stime') ]_vars

\* C12 witness: the count was taken while the polar engine held two waves
\* and its clock had advanced
C12_Witness ==
    /\ Polar
    /\ lastOp = "getActiveWaveCount"
    /\ count = 2
    /\ time > 0

\* what an engine holding this wave alone keeps of it at clock now, and the
\* frames it returns
Solo(wave, now)       == CleanUp(UpdateAll(<< wave >>, now))
SoloFrames(wave, now) == CollectSpectrograms(<< wave >>, now)

\* C13: what updateTime does to a wave is what it does to that wave alone:
\* the wave is dropped exactly when an engine holding only that wave drops
\* it, otherwise it is kept in the state and with the frame the lone wave
\* gets; its index is always floor((clock - birthTime) * 10), whatever
\* other waves are held; and generating a wave leaves the others as they
\* were
C13_WavesIndependent ==
    /\ [][ /\ PolarUpdated =>
                \A i \in 1..Len(waves) :
                   IF Solo(waves[i], time') = << >>
                   THEN /\ waves[i].id \notin HeldIds(waves')
                        /\ SoloFrames(waves[i], time') = << >>
                   ELSE \E k \in 1..Len(waves') :
                           /\ waves'[k] = Solo(waves[i], time')[1]
                           /\ k <= Len(activeSpectrograms')
                           /\ << activeSpectrograms'[k] >>
                                 = SoloFrames(waves[i], time')
           /\ PolarGenerated => SubSeq(waves', 1, Len(waves)) = waves ]_vars
    /\ [](\A i \in 1..Len(waves) :
            /\ waves[i].currentTimeIndex
                  = ((time - waves[i].birthTime) * 10) \div TimeScale
            /\ waves[i].currentTimeIndex
                  < phoneticProfiles[waves[i].type].duration)

\* C13 witness: updateTime returned while two waves born at different times
\* were held, each at its own index
C13_Witness ==
    /\ Polar
    /\ lastOp = "updateTime"
    /\ Len(waves) = 2
    /\ waves[1].birthTime # waves[2].birthTime
    /\ waves[1].currentTimeIndex # waves[2].currentTimeIndex

\* generateSpectrogramFrame has returned a frame
Synthesized == lastOp = "generateSpectrogramFrame"

\* some bin was positive before the normalization
NonSilent == \E i \in Bins : rawBins[i] > 0

\* C14: every frame the synthesizer returns has 100 bins, each in [0, 1],
\* and a frame that was not silent before the normalization has a bin that
\* is exactly 1
C14_FrameNormalized ==
    Synthesized =>
        /\ DOMAIN frame.frequencyBins = 0..99
        /\ \A i \in 0..99 :
              /\ frame.frequencyBins[i] >= 0
              /\ frame.frequencyBins[i] <= FP
        /\ NonSilent => \E i \in 0..99 : frame.frequencyBins[i] = FP

\* C14 witness: a fricative frame with noise in it: one bin is 1, another
\* lies strictly between 0 and 1, and the bin at the top of the band, which
\* no peak reaches, is positive
C14_Witness ==
    /\ Synthesized
    /\ synType = "fricative"
    /\ rawBins[99] > 0
    /\ \E i \in 0..99 : frame.frequencyBins[i] = FP
    /\ \E i \in 0..99 :
          frame.frequencyBins[i] > 0 /\ frame.frequencyBins[i] < FP

\* C15: a frame whose bins are all zero before the normalization is not
\* divided by its maximum and is returned with all bins zero
C15_SilenceSkipsNormalization ==
    (Synthesized /\ \A i \in 0..99 : rawBins[i] = 0)
        => /\ ~divided
           /\ \A i \in 0..99 : frame.frequencyBins[i] = 0

\* C15 witness: the frame at timeIndex 0 of a wave, where the envelope is 0,
\* was silent
C15_Witness ==
    /\ Synthesized
    /\ frame.timeIndex = 0
    /\ ~divided
    /\ \A i \in 0..99 : rawBins[i] = 0

\* the bin of the first vowel peak (300 Hz) in a frame
PeakBin(f) == f.frequencyBins[((300 - 100) * 99) \div (8000 - 100)]

\* C16 as stated: for a vowel the bin at a peak frequency strictly increases
\* from one timeIndex to the next over the attack window (up to timeIndex
\* 50) and after it decreases or stays as it is
C16_Original ==
    (Synthesized /\ synType = "vowel" /\ frame.timeIndex >= 1)
        => IF frame.timeIndex <= 50
           THEN PeakBin(frame) > PeakBin(prevFrame)
           ELSE PeakBin(frame) <= PeakBin(prevFrame)

\* displayToLogical has been applied to the display coordinate of the grid
\* point under test
RoundTripDone == logical # NoLogical /\ restored # NoLogical

\* C17: taking a point (f, t) of [0, 1] x [0, 1] to display coordinates and
\* back gives (f, t) again, to within the rounding of the arithmetic (one
\* fixed point unit); on the boundary f = 0.5 between the two halves the
\* frequency comes back exactly
C17_RoundTrip ==
    RoundTripDone =>
        /\ argument = display
        /\ restored.frequency - logical.frequency \in {0 - 1, 0, 1}
        /\ restored.time - logical.time \in {0 - 1, 0, 1}
        /\ logical.frequency = FP \div 2 => restored.frequency = FP \div 2

\* C17 witness: the round trip of a point on the boundary f = 0.5, away from
\* the mouth
C17_Witness ==
    /\ RoundTripDone
    /\ logical.frequency = FP \div 2
    /\ logical.time = FP \div 2
    /\ argument.z = 5 * FP

C19_WidthPositive ==
    (restored # NoLogical /\ argument.z >= 0)
        => /\ CurrentWidth(argument.z) > 0
           /\ CurrentWidth(argument.z) >= (3 * FP) \div 10

\* C19 witness: displayToLogical was applied at the origin radius 0, off
\* the axis
C19_Witness ==
    /\ restored # NoLogical
    /\ argument.z = 0
    /\ argument.x = FP

\* C20: whatever display coordinate displayToLogical is given, the result
\* has frequency and time in [0, 1] and isWithinBounds holds of it
C20_TotalAndClamping ==
    restored # NoLogical
        => /\ 0 <= restored.frequency /\ restored.frequency <= FP
           /\ 0 <= restored.time /\ restored.time <= FP
           /\ IsWithinBounds(restored)

\* C20 witness: displayToLogical was applied to a point behind the mouth
\* (negative z) and far outside the wedge
C20_Witness ==
    /\ logical = NoLogical
    /\ restored # NoLogical
    /\ argument.z < 0
    /\ argument.x = 10 * FP

\* calculateHeightAtPosition has returned, and its arguments were inside the
\* logical domain [0, 1] x [0, 1]
HeightSampled == Simple /\ lastOp = "calculateHeightAtPosition"
SampledInside ==
    /\ HeightSampled
    /\ 0 <= sampled[1] /\ sampled[1] <= FP
    /\ 0 <= sampled[2] /\ sampled[2] <= FP

\* C21: the height returned at (f, t) is the height the engine returns at
\* the mirror image (1 - f, t) in the same state, and every wave held is at
\* the same angular distance from both points
C21_MirroredHeight ==
    SampledInside =>
        /\ height = HeightAtPosition(swaves, FP - sampled[1], sampled[2],
                                     stime)
        /\ \A i \in 1..Len(swaves) :
              AngleDiff(swaves[i], sampled[1])
                  = AngleDiff(swaves[i], FP - sampled[1])

\* C21 witness: the height was sampled in the left half, at f = 1/4, within
\* reach of the front of one of two waves
C21_Witness ==
    /\ SampledInside
    /\ sampled = << FP \div 4, FP \div 4 >>
    /\ Len(swaves) = 2
    /\ \E i \in 1..Len(swaves) :
          DistanceFromWave(swaves[i], sampled[2], stime) < 2 * FP

\* the wave set without its i-th wave
Without(ws, i) == SubSeq(ws, 1, i - 1) \o SubSeq(ws, i + 1, Len(ws))

\* C23: a wave whose |centerAngle| is further than its spread from the
\* folded angle of the sample contributes exactly 0, and the height
\* returned is additive in the waves: without any one wave the engine
\* returns the height less that wave's contribution
C23_ZeroOutsideSpreadAndAdditive ==
    SampledInside =>
        \A i \in 1..Len(swaves) :
            /\ AngleDiff(swaves[i], sampled[1]) > swaves[i].spread
                  => Contribution(swaves[i], sampled[1], sampled[2],
                                  stime) = 0
            /\ HeightAtPosition(Without(swaves, i), sampled[1], sampled[2],
                                stime)
                  = height - Contribution(swaves[i], sampled[1],
                                          sampled[2], stime)

\* C23 witness: the height was sampled at the source line t = 0 while two
\* waves were held, one within reach of the sample and outside its
\* angular window
C23_Witness ==
    /\ SampledInside
    /\ sampled[2] = 0
    /\ Len(swaves) = 2
    /\ \E i \in 1..Len(swaves) :
          /\ DistanceFromWave(swaves[i], sampled[2], stime) < 2 * FP
          /\ AngleDiff(swaves[i], sampled[1]) > swaves[i].spread

\* calculateHeightAtPosition has returned, and one of its arguments was
\* outside [0, 1]
SampledOutside ==
    /\ HeightSampled
    /\ \/ sampled[1] < 0 \/ sampled[1] > FP
       \/ sampled[2] < 0 \/ sampled[2] > FP

\* C30: a sample with a coordinate outside [0, 1] is rejected by the bounds
\* check and the height returned is exactly 0, whatever waves are held
C30_OutOfRangeIsZero ==
    SampledOutside =>
        /\ height = 0
        /\ OutOfBounds(sampled[1], sampled[2])

\* C30 witness: the height was sampled at time 1.1 while a wave was held
C30_Witness ==
    /\ SampledOutside
    /\ sampled[2] > FP
    /\ Len(swaves) >= 1

\* the frame's position in the envelope of its profile
InAttack == frame.timeIndex < Profile(synType).attackTime
InDecay ==
    /\ ~InAttack
    /\ frame.timeIndex
          > Profile(synType).duration - Profile(synType).decayTime

\* C22: the envelope is the ramp timeIndex / attackTime during the attack,
\* sustainLevel in the middle, and during the decay a ramp that starts at
\* sustainLevel and falls to 0, so it never exceeds sustainLevel there
C22_Original ==
    Synthesized =>
        /\ InAttack =>
              synEnvelope
                  = (frame.timeIndex * FP) \div Profile(synType).attackTime
        /\ (~InAttack /\ ~InDecay) =>
              synEnvelope = Profile(synType).sustainLevel
        /\ InDecay =>
              /\ 0 <= synEnvelope
              /\ synEnvelope <= Profile(synType).sustainLevel

GridGenerated == lastOp = "generateTestGrid"

\* the loop values t whose normalized time t / (timeSteps - 1) is at least
\* 0.05, in exact arithmetic
KeptRows(timeSteps) == { t \in 0..(timeSteps - 1) : 20 * t >= timeSteps - 1 }

\* the place in the list of the point of grid pair (f, t)
PlaceOf(f, t, timeSteps) ==
    f * Cardinality(KeptRows(timeSteps))
        + Cardinality({ u \in KeptRows(timeSteps) : u <= t })

\* C24: the list generateTestGrid returns holds one display point for each
\* grid pair whose normalized time is at least 0.05 and nothing else, every
\* point lies at z >= 0.05 * maxRadius, and the default 21 x 21 grid gives
\* 420 points
C24_TestGrid ==
    GridGenerated =>
        /\ Len(points)
              = gridArgs[1] * Cardinality(KeptRows(gridArgs[2]))
        /\ \A f \in 0..(gridArgs[1] - 1) : \A t \in KeptRows(gridArgs[2]) :
              /\ PlaceOf(f, t, gridArgs[2]) \in 1..Len(points)
              /\ points[PlaceOf(f, t, gridArgs[2])]
                    = LogicalToDisplay(
                          [ frequency |-> GridCoordinate(f, gridArgs[1]),
                            time      |-> GridCoordinate(t, gridArgs[2]) ])
        /\ \A i \in 1..Len(points) :
              20 * points[i].z >= coordinateParams.maxRadius * FP
        /\ gridArgs = << GridSteps, GridSteps >> => Len(points) = 420

\* C24 witness: the default grid was generated, and its first point is the
\* one of the row at normalized time 0.05
C24_Witness ==
    /\ GridGenerated
    /\ gridArgs = << GridSteps, GridSteps >>
    /\ Len(points) = 420
    /\ points[1].z = FP \div 2

Mirrored == lastOp = "createBilateralSpectrogram"

\* the points pushed for bin i: right half, then left half
RightOf(i) == bilateral[2 * i + 1]
LeftOf(i)  == bilateral[2 * i + 2]

\* C25: createBilateralSpectrogram returns two points per bin, 200 for the
\* 100 bins of a frame; the two points of a bin have opposite x, the same z
\* and the bin's amplitude as y; bin 0 lies on the centerline and bin 99 at
\* the angle halfAngleSpan on either side
C25_BilateralPairs ==
    Mirrored =>
        /\ Len(bilateral) = 2 * FrequencyBins
        /\ Len(bilateral) = 200
        /\ \A i \in Bins :
              /\ LeftOf(i).x = 0 - RightOf(i).x
              /\ LeftOf(i).z = RightOf(i).z
              /\ RightOf(i).y = frame.frequencyBins[i]
              /\ LeftOf(i).y = frame.frequencyBins[i]
        /\ RightOf(0).x = 0
        /\ RightOf(0).z = TimeToRadius(frame.timeIndex) * fieldParams.maxRadius
        /\ FieldFrequencyToAngle(FrequencyBins - 1)
              = fieldParams.halfAngleSpan
        /\ [ RightOf(FrequencyBins - 1) EXCEPT !.y = 0 ]
              = PolarToCartesian(
                    [ radius |-> TimeToRadius(frame.timeIndex),
                      angle  |-> fieldParams.halfAngleSpan ])

\* C25 witness: a non-silent frame away from the center was mirrored, and
\* the points of bin 99 lie off the centerline
C25_Witness ==
    /\ Mirrored
    /\ frame.timeIndex > 0
    /\ \E i \in Bins : RightOf(i).y > 0
    /\ RightOf(FrequencyBins - 1).x > 0
    /\ LeftOf(FrequencyBins - 1).x < 0

\* C29: for each type the frame generated for timeIndex 0 is silent, its
\* envelope being 0, and every later frame of the wave has a bin above 0
C29_OnlyFirstFrameSilent ==
    Synthesized =>
        /\ frame.timeIndex = 0 =>
              /\ synEnvelope = 0
              /\ \A i \in Bins : rawBins[i] = 0
              /\ \A i \in Bins : frame.frequencyBins[i] = 0
        /\ frame.timeIndex > 0 =>
              /\ frame.timeIndex < MaxTimeIndex(Profile(synType))
              /\ \E i \in Bins : frame.frequencyBins[i] > 0

\* C29 witness: the last frame of a plosive, deep in the decay, was
\* generated with a bin above 0, and the frame before it was non-silent too
C29_Witness ==
    /\ Synthesized
    /\ synType = "plosive"
    /\ frame.timeIndex = MaxTimeIndex(Profile("plosive")) - 1
    /\ \E i \in Bins : frame.frequencyBins[i] > 0
    /\ \E i \in Bins : prevFrame.frequencyBins[i] > 0

SimpleUpdated == Simple /\ lastOp' = "updateTime"

\* C27: WaveEngine.updateTime keeps a wave exactly while its age is below
\* duration * 25; a wave it drops is still inside the field, at a radius
\* below maxRadius, and every wave it keeps has a radius below 2
C27_RetiredByAgeOnly ==
    [][ SimpleUpdated =>
          /\ \A i \in 1..Len(swaves) :
                /\ swaves[i].id \in HeldIds(swaves')
                      <=> (stime' - swaves[i].birthTime) * FP
                              < phoneticParams[swaves[i].type].duration
                                    * 25 * TimeScale
                /\ GetWaveRadius(swaves[i], stime') < params.maxRadius * FP
          /\ \A j \in 1..Len(swaves') :
                GetWaveRadius(swaves'[j], stime') < 2 * FP ]_vars

\* C27 witness: after an update a fricative is held one clock step before
\* its maximum age, its radius short of 2, and another wave is gone
C27_Witness ==
    /\ Simple
    /\ lastOp = "updateTime"
    /\ swaveId = 2
    /\ Len(swaves) = 1
    /\ swaves[1].type = "fricative"
    /\ stime - swaves[1].birthTime = SLifetime("fricative") - 1
    /\ GetWaveRadius(swaves[1], stime) > FP

\* C28: in either engine the waves held at the same time have pairwise
\* distinct ids
C28_HeldIdsDistinct ==
    /\ \A i, j \in 1..Len(waves) : i # j => waves[i].id # waves[j].id
    /\ \A i, j \in 1..Len(swaves) : i # j => swaves[i].id # swaves[j].id

\* C28 witness: two waves are held after a reset, in an engine that has
\* issued three ids since it was constructed
C28_Witness ==
    /\ Polar
    /\ lastOp = "generateWave"
    /\ Len(waves) = 2
    /\ waveId = 2
    /\ Cardinality(issued) = 3

\* ticks of the render loop since the wave was created
TicksOf(wave) == (time - wave.birthTime) \div RenderStep

\* C26: under the render loop's step of 0.1 the k-th tick after a wave was
\* created surfaces its frame with timeIndex k, for every k from 1 up to
\* maxTimeIndex - 1, so the frames come in increasing order, each once and
\* never frame 0; the wave is removed on tick maxTimeIndex
C26_FramePerTick ==
    (Polar /\ lastOp = "updateTime") =>
        /\ Len(activeSpectrograms) = Len(waves)
        /\ \A i \in 1..Len(waves) :
              /\ TicksOf(waves[i]) >= 1
              /\ TicksOf(waves[i]) < waves[i].maxTimeIndex
              /\ waves[i].currentTimeIndex = TicksOf(waves[i])
              /\ activeSpectrograms[i].timeIndex = TicksOf(waves[i])
              /\ activeSpectrograms[i]
                    = SpectrogramFrame(waves[i].type, TicksOf(waves[i]))
        /\ \A j \in 1..Len(retired) :
              TicksOf(retired[j]) = retired[j].maxTimeIndex

\* C26 witness: the tick on which a trill created after the second tick of
\* the loop is removed, its 600th
C26_Witness ==
    /\ Polar
    /\ lastOp = "updateTime"
    /\ waves = << >>
    /\ Len(retired) = 1
    /\ retired[1].type = "trill"
    /\ retired[1].birthTime = MaxBirthTick * RenderStep
    /\ TicksOf(retired[1]) = 600

====
